---- MODULE Spec2Model ----
(***************************************************************************)
(* Extendible cuckoo hash table of src/tables/xuckoo.c: two inner tables   *)
(* (extendible hashing, one key per bucket) and the cuckoo displacement    *)
(* protocol between them.                                                  *)
(*                                                                         *)
(* Pointers are modelled as handles: heap[t] is the sequence of the        *)
(* buckets allocated for inner table t (heap[t][b] is *bucket), and        *)
(* tab[t].buckets[a + 1] is the handle stored in table->buckets[a].        *)
(* One step of the model is one invocation of try_xuck_insert (with the    *)
(* calls it makes), or one whole public call that does not recurse.        *)
(***************************************************************************)
EXTENDS Integers, Sequences, FiniteSets, TLC

\* ---- bounds of the model ----
MaxKey == 4            \* keys are 0..MaxKey

\* MAX_TABLE_SIZE is #defined in a header outside src/tables/xuckoo.c; the
\* model takes a small ceiling so that the assert of double_table is reached.
MAX_TABLE_SIZE == 16

Keys == 0..MaxKey
TableNos == {1, 2}
Uninit == -1           \* content of a bucket->key that was never written

VARIABLES
  tab,        \* tab[t]: InnerTable t: [buckets, size, depth, nkeys]
  heap,       \* heap[t]: the Bucket structs malloc'ed for table t
  stats,      \* table->stats: [nbuckets, nkeys]
  hashes,     \* the two hash functions h1, h2: [a1, b1, a2, b2] of the family
  pc,         \* "idle": between public calls; "try": a try_xuck_insert call
              \* is about to run; "aborted": an assert failed; "freed"
  frame,      \* arguments of the pending try_xuck_insert call
  arg,        \* key of the last public call
  ret,        \* result of the last completed public call
  lastop,     \* the last completed public call
  passed,     \* keys ever passed to a public insert call
  inserted,   \* keys whose public insert call returned true
  pre,        \* stats.nkeys when the running public insert call started
  fresh,      \* no public insert call so far was given a key passed before
  frees       \* frees[t]: result of the free() scan of table t (free_buckets)

vars == <<tab, heap, stats, hashes, pc, frame, arg, ret, lastop, passed,
          inserted, pre, fresh, frees>>

\* ---- arithmetic of the C expressions ----
Pow2(n) == IF n <= 0 THEN 1 ELSE 2 ^ n

\* x << n
Shl(x, n) == x * Pow2(n)

\* x | y on non-negative ints
RECURSIVE BitOr(_, _)
BitOr(x, y) ==
  IF x = 0 THEN y
  ELSE IF y = 0 THEN x
  ELSE (IF (x % 2 = 1) \/ (y % 2 = 1) THEN 1 ELSE 0)
       + 2 * BitOr(x \div 2, y \div 2)

\* #define rightmostnbits(n, x) (x) & ((1 << (n)) - 1)
rightmostnbits(n, x) == x % Pow2(n)

\* the hash functions supplied by the environment
h1(k) == hashes.a1 * k + hashes.b1
h2(k) == hashes.a2 * k + hashes.b2

hash(table_no, k) == IF table_no = 1 THEN h1(k) ELSE h2(k)

\* ---- buckets and inner tables ----
new_bucket(first_address, depth) ==
  [id |-> first_address, depth |-> depth, full |-> FALSE, key |-> Uninit]

new_inner_table ==
  [buckets |-> <<1>>, size |-> 1, depth |-> 0, nkeys |-> 0]

\* table->buckets[address]
BucketAt(T, H, address) == H[T.buckets[address + 1]]

\* variant: the assert admits a doubled size equal to MAX_TABLE_SIZE
double_table_ok_inclusive(T) == T.size * 2 <= MAX_TABLE_SIZE

\* the assert of double_table
double_table_ok(T) == T.size * 2 < MAX_TABLE_SIZE

\* variant: the new upper half of the slot array is filled with slot 0
double_table_slot0(T) ==
  [T EXCEPT !.buckets = [i \in 1..(2 * T.size) |->
                           IF i <= T.size THEN T.buckets[i]
                           ELSE T.buckets[1]],
            !.size = 2 * T.size,
            !.depth = T.depth + 1]

\* double_table: only the InnerTable struct and its slot array are written,
\* no Bucket is
double_table(T) ==
  [T EXCEPT !.buckets = [i \in 1..(2 * T.size) |->
                           IF i <= T.size THEN T.buckets[i]
                           ELSE T.buckets[i - T.size]],
            !.size = 2 * T.size,
            !.depth = T.depth + 1]

\* does split_bucket call double_table?
split_grows(T, H, address) == BucketAt(T, H, address).depth = T.depth

split_aborts(T, H, address) ==
  split_grows(T, H, address) /\ ~double_table_ok(T)

\* variant: the address is taken with one bit less than the table's depth
reinsert_address_shallow(T, key, table_no) ==
  rightmostnbits(T.depth - 1, hash(table_no, key))

\* the bucket reinsert_key writes to
reinsert_address(T, key, table_no) ==
  rightmostnbits(T.depth, hash(table_no, key))

reinsert_key(T, H, key, table_no) ==
  LET b == T.buckets[reinsert_address(T, key, table_no) + 1]
  IN  [H EXCEPT ![b].key = key, ![b].full = TRUE]

\* variant: the 1 bit is not joined to the old first address
split_new_first_address_same(depth, first_address) == first_address

\* variant: the 1 bit is set one position too high
split_new_first_address_high(depth, first_address) ==
  BitOr(Shl(1, depth + 1), first_address)

\* first address of the bucket a split creates
split_new_first_address(depth, first_address) ==
  BitOr(Shl(1, depth), first_address)

\* variant: the prefix is shifted by the old depth of the bucket
split_addresses_old_depth(table_depth, depth, first_address) ==
  LET new_depth == depth + 1
      bit_address == rightmostnbits(depth, first_address)
      suffix == BitOr(Shl(1, depth), bit_address)
      maxprefix == Shl(1, table_depth - new_depth)
  IN  { BitOr(Shl(prefix, depth), suffix) :
          prefix \in 0..(maxprefix - 1) }

\* the addresses the for loop of split_bucket redirects to the new bucket
split_addresses(table_depth, depth, first_address) ==
  LET new_depth == depth + 1
      bit_address == rightmostnbits(depth, first_address)
      suffix == BitOr(Shl(1, depth), bit_address)
      maxprefix == Shl(1, table_depth - new_depth)
  IN  { BitOr(Shl(prefix, new_depth), suffix) :
          prefix \in 0..(maxprefix - 1) }

\* split_bucket on inner table T with buckets H; garbage is the value read
\* from bucket->key when that field was never written.
split_bucket(T, H, address, table_no, garbage) ==
  LET T1 == IF split_grows(T, H, address) THEN double_table(T) ELSE T
      b == T1.buckets[address + 1]
      depth == H[b].depth
      first_address == H[b].id
      new_depth == depth + 1
      new_first_address == split_new_first_address(depth, first_address)
      newbucket == Len(H) + 1
      redirected == split_addresses(T1.depth, depth, first_address)
      T2 == [T1 EXCEPT !.buckets = [i \in 1..T1.size |->
                                      IF (i - 1) \in redirected THEN newbucket
                                      ELSE T1.buckets[i]]]
      H1 == Append([H EXCEPT ![b].depth = new_depth],
                   new_bucket(new_first_address, new_depth))
      key == IF H[b].key = Uninit THEN garbage ELSE H[b].key
      H2 == [H1 EXCEPT ![b].full = FALSE]
  IN  [tab |-> T2, heap |-> reinsert_key(T2, H2, key, table_no)]

\* ---- lookup ----
xuckoo_hash_table_lookup(TT, HH, key) ==
  LET address == rightmostnbits(TT[1].depth, h1(key))
      address2 == rightmostnbits(TT[2].depth, h2(key))
      found1 == BucketAt(TT[1], HH[1], address).full
                /\ BucketAt(TT[1], HH[1], address).key = key
  IN  found1 \/ (BucketAt(TT[2], HH[2], address2).full
                 /\ BucketAt(TT[2], HH[2], address2).key = key)

\* ---- the state machine ----
NoFrame == [key |-> 0, orig_pos |-> 0, orig_key |-> 0, loop |-> 0,
            orig_table |-> 0]

\* the pairs of hash functions explored, h1(k) = a1 * k + b1 and
\* h2(k) = a2 * k + b2:
\*   k and k + 1; both constant (every key collides in both tables);
\*   h1 constant with h2 = k + 1 and with h2 = k;
\*   2k + 1 and k (keys that agree on their low-order bit in table 1)
HashFamily ==
  { [a1 |-> 1, b1 |-> 0, a2 |-> 1, b2 |-> 1],
    [a1 |-> 0, b1 |-> 0, a2 |-> 0, b2 |-> 0],
    [a1 |-> 0, b1 |-> 0, a2 |-> 1, b2 |-> 1],
    [a1 |-> 0, b1 |-> 1, a2 |-> 1, b2 |-> 0],
    [a1 |-> 2, b1 |-> 1, a2 |-> 1, b2 |-> 0] }

\* new_xuckoo_hash_table
Init ==
  /\ tab = [t \in TableNos |-> new_inner_table]
  /\ heap = [t \in TableNos |-> <<new_bucket(0, 0)>>]
  /\ stats = [nbuckets |-> 0, nkeys |-> 0]
  /\ hashes \in HashFamily
  /\ pc = "idle"
  /\ frame = NoFrame
  /\ arg = 0
  /\ ret = FALSE
  /\ lastop = "new"
  /\ passed = {}
  /\ inserted = {}
  /\ pre = 0
  /\ fresh = TRUE
  /\ frees = <<>>

\* the arguments xuckoo_hash_table_insert passes to try_xuck_insert
first_frame(TT, key) ==
  IF TT[1].nkeys <= TT[2].nkeys
  THEN [key |-> key, orig_pos |-> rightmostnbits(TT[1].depth, h1(key)),
        orig_key |-> key, loop |-> 0, orig_table |-> 1]
  ELSE [key |-> key, orig_pos |-> rightmostnbits(TT[2].depth, h2(key)),
        orig_key |-> key, loop |-> 1, orig_table |-> 2]

\* the public call returns to its caller
Return(op, r) ==
  /\ pc' = "idle"
  /\ frame' = NoFrame
  /\ ret' = r
  /\ lastop' = op

\* public call xuckoo_hash_table_insert(table, k)
Insert(k) ==
  /\ pc = "idle"
  /\ arg' = k
  /\ passed' = passed \cup {k}
  /\ pre' = stats.nkeys
  /\ fresh' = (fresh /\ k \notin passed)
  /\ IF xuckoo_hash_table_lookup(tab, heap, k)
     THEN /\ Return("insert", FALSE)
          /\ UNCHANGED inserted
     ELSE /\ pc' = "try"
          /\ frame' = first_frame(tab, k)
          /\ UNCHANGED <<ret, lastop, inserted>>
  /\ UNCHANGED <<tab, heap, stats, hashes, frees>>

\* variant: the loop counter is not incremented
cur_loop_same == frame.loop

\* values computed at the top of try_xuck_insert
cur_loop == frame.loop + 1
cur_table_no == IF cur_loop % 2 = 0 THEN 2 ELSE 1
cur_address ==
  rightmostnbits(tab[cur_table_no].depth, hash(cur_table_no, frame.key))

cycle_check ==
  \/ (cur_address = frame.orig_pos /\ frame.key = frame.orig_key
      /\ cur_loop > 3)
  \/ cur_loop > tab[1].size + tab[2].size

\* try_xuck_insert: the split fails on the assert of double_table
XuckAbort ==
  /\ pc = "try"
  /\ cycle_check
  /\ split_aborts(tab[cur_table_no], heap[cur_table_no], cur_address)
  /\ pc' = "aborted"
  /\ UNCHANGED <<tab, heap, stats, hashes, frame, arg, ret, lastop, passed,
                 inserted, pre, fresh, frees>>

\* variant: the nested insert call is given the origin key of the chain
restart_key_origin == frame.orig_key

\* the key try_xuck_insert passes to the nested xuckoo_hash_table_insert
\* call after a split: its own parameter key, the key in hand
restart_key == frame.key

\* try_xuck_insert: split, then the nested xuckoo_hash_table_insert(key);
\* every public insert call on the stack returns true when the nested call
\* returns.
XuckSplit ==
  /\ pc = "try"
  /\ cycle_check
  /\ ~split_aborts(tab[cur_table_no], heap[cur_table_no], cur_address)
  /\ \E garbage \in Keys :
       LET s == split_bucket(tab[cur_table_no], heap[cur_table_no],
                             cur_address, cur_table_no, garbage)
           TT == [tab EXCEPT ![cur_table_no] = s.tab]
           HH == [heap EXCEPT ![cur_table_no] = s.heap]
       IN  /\ tab' = TT
           /\ heap' = HH
           /\ stats' = [stats EXCEPT !.nbuckets = @ + 1]
           /\ IF xuckoo_hash_table_lookup(TT, HH, restart_key)
              THEN /\ Return("insert", TRUE)
                   /\ inserted' = inserted \cup {arg}
              ELSE /\ pc' = "try"
                   /\ frame' = first_frame(TT, restart_key)
                   /\ UNCHANGED <<ret, lastop, inserted>>
  /\ UNCHANGED <<hashes, arg, passed, pre, fresh, frees>>

\* try_xuck_insert: the bucket is full, swap and recurse
XuckDisplace ==
  /\ pc = "try"
  /\ ~cycle_check
  /\ BucketAt(tab[cur_table_no], heap[cur_table_no], cur_address).full
  /\ LET b == tab[cur_table_no].buckets[cur_address + 1]
         rehash_key == heap[cur_table_no][b].key
     IN  /\ heap' = [heap EXCEPT ![cur_table_no][b].key = frame.key]
         /\ frame' = [frame EXCEPT !.key = rehash_key, !.loop = cur_loop]
  /\ UNCHANGED <<tab, stats, hashes, pc, arg, ret, lastop, passed, inserted,
                 pre, fresh, frees>>

\* try_xuck_insert: the bucket is empty, store the key and return true
XuckPlace ==
  /\ pc = "try"
  /\ ~cycle_check
  /\ ~BucketAt(tab[cur_table_no], heap[cur_table_no], cur_address).full
  /\ LET b == tab[cur_table_no].buckets[cur_address + 1]
     IN  heap' = [heap EXCEPT ![cur_table_no][b].key = frame.key,
                              ![cur_table_no][b].full = TRUE]
  /\ tab' = [tab EXCEPT ![cur_table_no].nkeys = @ + 1]
  /\ stats' = [stats EXCEPT !.nkeys = @ + 1]
  /\ Return("insert", TRUE)
  /\ inserted' = inserted \cup {arg}
  /\ UNCHANGED <<hashes, arg, passed, pre, fresh, frees>>

\* variant: a lookup that finds its key counts it in the statistics
Lookup_counting(k) ==
  /\ pc = "idle"
  /\ arg' = k
  /\ Return("lookup", xuckoo_hash_table_lookup(tab, heap, k))
  /\ stats' = [stats EXCEPT !.nkeys =
                  IF xuckoo_hash_table_lookup(tab, heap, k) THEN @ + 1 ELSE @]
  /\ UNCHANGED <<tab, heap, hashes, passed, inserted, pre, fresh, frees>>

\* public call xuckoo_hash_table_lookup(table, k); stats.time, the only
\* field the call writes, is not part of the model
Lookup(k) ==
  /\ pc = "idle"
  /\ arg' = k
  /\ Return("lookup", xuckoo_hash_table_lookup(tab, heap, k))
  /\ UNCHANGED <<tab, heap, stats, hashes, passed, inserted, pre, fresh,
                 frees>>

\* the backwards scan of free_xuckoo_hash_table over one inner table, from
\* slot i down to slot 0: acc.count[b] is how often heap[t][b] was passed to
\* free(), acc.dangling whether the id of a freed bucket was read
RECURSIVE free_scan(_, _, _, _)
free_scan(T, H, i, acc) ==
  IF i < 0 THEN acc
  ELSE LET b == T.buckets[i + 1]
           seen == [acc EXCEPT !.dangling = @ \/ (acc.count[b] > 0)]
       IN  free_scan(T, H, i - 1,
                     IF H[b].id = i
                     THEN [seen EXCEPT !.count[b] = @ + 1]
                     ELSE seen)

free_buckets(T, H) ==
  free_scan(T, H, T.size - 1,
            [count |-> [b \in 1..Len(H) |-> 0], dangling |-> FALSE])

\* public call free_xuckoo_hash_table(table)
Free ==
  /\ pc = "idle"
  /\ pc' = "freed"
  /\ frees' = [t \in TableNos |-> free_buckets(tab[t], heap[t])]
  /\ lastop' = "free"
  /\ UNCHANGED <<tab, heap, stats, hashes, frame, arg, ret, passed, inserted,
                 pre, fresh>>

Next ==
  \/ \E k \in Keys : Insert(k)
  \/ \E k \in Keys : Lookup(k)
  \/ XuckAbort
  \/ XuckSplit
  \/ XuckDisplace
  \/ XuckPlace
  \/ Free

Spec == Init /\ [][Next]_vars

\* the steps a running public call takes on its own: the program is
\* single-threaded and a call that has started keeps executing
Run == XuckAbort \/ XuckSplit \/ XuckDisplace \/ XuckPlace

\* ---- vocabulary of the properties ----
Idle == pc = "idle"

\* the distinct buckets the slots of table t point to
Buckets(t) == { tab[t].buckets[i] : i \in 1..tab[t].size }

\* the occupied ones among them
Occupied(t) == { b \in Buckets(t) : heap[t][b].full }

\* the occupied buckets, of either table, that hold key k
Holders(k) ==
  UNION { { <<t, b>> : b \in { c \in Occupied(t) : heap[t][c].key = k } } :
            t \in TableNos }

\* the slot addresses of table t that reference bucket b
SlotsOf(t, b) == { i \in 0..(tab[t].size - 1) : tab[t].buckets[i + 1] = b }

\* ---- C1 ----
\* C1: between public calls, lookup returns true for every key whose insert
\* call returned true, whatever inserts of other keys happened since.
C1_InsertThenLookup ==
  Idle => \A k \in inserted : xuckoo_hash_table_lookup(tab, heap, k)

\* ---- C2 ----
\* C2: between public calls, no key is held by two occupied buckets, and
\* every key whose insert call returned true is held by exactly one.
C2_OneCopy ==
  Idle => \A k \in Keys :
            /\ Cardinality(Holders(k)) <= 1
            /\ k \in inserted => Cardinality(Holders(k)) = 1

\* ---- C3 ----
\* C3: when an insert call returns true (the key was not present when it
\* was called), stats.nkeys is one more than when it was called and the key
\* is found by lookup, so that the same insert call repeated at once takes
\* the early return of xuckoo_hash_table_insert: false, nothing modified.
C3_IdempotentInsert ==
  (Idle /\ lastop = "insert" /\ ret) =>
     /\ stats.nkeys = pre + 1
     /\ xuckoo_hash_table_lookup(tab, heap, arg)

\* ---- C4 ----
\* C4: after N insert calls on N pairwise distinct keys that all returned
\* true, the occupied buckets of table 1 and of table 2 number N together.
C4_Conservation ==
  (Idle /\ fresh /\ inserted = passed) =>
     Cardinality(Occupied(1)) + Cardinality(Occupied(2))
       = Cardinality(passed)

\* ---- C5 ----
\* C5: between public calls, lookup returns false for every key never
\* passed to insert, and no occupied bucket holds such a key.
C5_NegativeLookup ==
  Idle => \A k \in Keys \ passed :
            /\ ~xuckoo_hash_table_lookup(tab, heap, k)
            /\ Holders(k) = {}

\* ---- C6 ----
\* what is left of a running insert call: the splits the ceiling still
\* allows (a table of size below MAX_TABLE_SIZE has fewer buckets than
\* that), each followed by at most 2 * MAX_TABLE_SIZE displacement steps
\* before the loop counter exceeds the two sizes
StepsLeft ==
  (2 * MAX_TABLE_SIZE - (Len(heap[1]) + Len(heap[2])))
     * (2 * MAX_TABLE_SIZE + 1)
  + (2 * MAX_TABLE_SIZE - frame.loop)

\* C6: every step of an insert call that has started either ends it (it
\* returns, or hits the assert of double_table) or strictly decreases the
\* non-negative number StepsLeft: it does not displace, split or restart
\* forever.
C6_Termination ==
  [][(pc = "try") =>
       /\ StepsLeft >= 0
       /\ (pc' = "try") => (StepsLeft' >= 0 /\ StepsLeft' < StepsLeft)]_vars

\* an insert call returned after splits and restarts, with a hash function
\* h1 that sends every key to the same address
C6_Witness ==
  /\ Idle /\ lastop = "insert" /\ ret
  /\ hashes.a1 = 0
  /\ stats.nbuckets >= 2
  /\ Cardinality(inserted) >= 3

\* ---- C7 ----
\* C7: in every state, each bucket of each inner table has depth at most
\* the table's depth and is referenced by exactly 2^(table depth - bucket
\* depth) slots: those whose low-order (bucket depth) bits are the
\* low-order bits of the bucket's id.
C7_SlotSharing ==
  \A t \in TableNos : \A b \in 1..Len(heap[t]) :
     LET d == heap[t][b].depth
     IN  /\ d <= tab[t].depth
         /\ Cardinality(SlotsOf(t, b)) = 2 ^ (tab[t].depth - d)
         /\ SlotsOf(t, b) =
              { i \in 0..(tab[t].size - 1) :
                  rightmostnbits(d, i) = rightmostnbits(d, heap[t][b].id) }

\* the last split of a table redirected two slots to the new bucket (the
\* split bucket was shared by four slots), next to buckets with a slot of
\* their own
C7_Witness ==
  \E t \in TableNos :
     /\ tab[t].depth = 3
     /\ Len(heap[t]) > 1
     /\ Cardinality(SlotsOf(t, Len(heap[t]))) = 2
     /\ \E b \in Buckets(t) : Cardinality(SlotsOf(t, b)) = 1

\* ---- C8 ----
\* C8: in every state, each allocated bucket of each table is referenced by
\* exactly one slot whose index is the bucket's id; and the scan of
\* free_xuckoo_hash_table frees every bucket exactly once and never reads
\* a bucket it has freed.
C8_TeardownSafety ==
  /\ \A t \in TableNos : \A b \in 1..Len(heap[t]) :
       Cardinality({ i \in SlotsOf(t, b) : heap[t][b].id = i }) = 1
  /\ pc = "freed" =>
       \A t \in TableNos :
          /\ ~frees[t].dangling
          /\ \A b \in 1..Len(heap[t]) : frees[t].count[b] = 1

\* a table with shared buckets was freed
C8_Witness ==
  /\ pc = "freed"
  /\ \E t \in TableNos :
        /\ Len(heap[t]) >= 3
        /\ \E b \in Buckets(t) : Cardinality(SlotsOf(t, b)) >= 2

\* ---- C9 ----
\* the step is a split_bucket call that calls double_table
GrowAttempt ==
  /\ pc = "try"
  /\ cycle_check
  /\ split_grows(tab[cur_table_no], heap[cur_table_no], cur_address)

\* C9 as stated: a double_table call fails on its assert if and only if
\* the doubled size exceeds MAX_TABLE_SIZE (a doubled size up to
\* MAX_TABLE_SIZE succeeds), and the failing call has modified nothing.
C9_GrowthCeiling ==
  [][GrowAttempt
      => /\ (pc' = "aborted") <=>
               (2 * tab[cur_table_no].size > MAX_TABLE_SIZE)
         /\ (pc' = "aborted") =>
               (tab' = tab /\ heap' = heap /\ stats' = stats)]_vars

\* C9 as amended: a double_table call fails on its assert if and only if
\* the doubled size reaches or exceeds MAX_TABLE_SIZE (only a doubled size
\* strictly below MAX_TABLE_SIZE succeeds), and the failing call has
\* modified nothing.
C9_GrowthCeilingAmended ==
  [][GrowAttempt
      => /\ (pc' = "aborted") <=>
               (2 * tab[cur_table_no].size >= MAX_TABLE_SIZE)
         /\ (pc' = "aborted") =>
               (tab' = tab /\ heap' = heap /\ stats' = stats)]_vars

\* a double_table call failed whose doubled size is exactly MAX_TABLE_SIZE
C9_Witness ==
  /\ pc = "aborted"
  /\ 2 * tab[cur_table_no].size = MAX_TABLE_SIZE

\* ---- C10 ----
\* C10: stats.nbuckets is the number of distinct buckets the two inner
\* tables point to.
C10_BucketStatistic ==
  stats.nbuckets = Cardinality(Buckets(1)) + Cardinality(Buckets(2))

\* ---- C11 ----
\* C11: a lookup call changes nothing: the slot arrays, depth, size and
\* nkeys of both inner tables, the id, depth, full flag and key of every
\* bucket, and stats.nkeys and stats.nbuckets are after the call what they
\* were before it.
C11_LookupReadOnly ==
  [][(pc = "idle" /\ pc' = "idle" /\ lastop' = "lookup")
       => (tab' = tab /\ heap' = heap /\ stats' = stats)]_vars

\* a lookup call found its key in a table that has split
C11_Witness ==
  /\ Idle /\ lastop = "lookup" /\ ret
  /\ stats.nbuckets >= 1
  /\ stats.nkeys >= 2

\* ---- C12 ----
\* the keys stored in table t
StoredKeys(t) == { heap[t][b].key : b \in Occupied(t) }

\* the step is a try_xuck_insert call whose split_bucket call completes
SplitStep ==
  /\ pc = "try"
  /\ cycle_check
  /\ ~split_aborts(tab[cur_table_no], heap[cur_table_no], cur_address)

\* C12: every split performed during an insert leaves the set of keys
\* stored in the split table and the number of its occupied buckets
\* unchanged.
C12_SplitKeepsKeys ==
  [][SplitStep =>
       \E t \in TableNos :
          /\ t = cur_table_no
          /\ StoredKeys(t)' = StoredKeys(t)
          /\ Cardinality(Occupied(t))' = Cardinality(Occupied(t))]_vars

\* ---- C13 ----
\* rule (a) of the cycle check holds for the try_xuck_insert call about to
\* run
CycleRuleA ==
  /\ pc = "try"
  /\ cur_address = frame.orig_pos
  /\ frame.key = frame.orig_key
  /\ cur_loop > 3

\* C13: whenever rule (a) of the cycle check fires, the table the step
\* works on is the table in which the chain started: the origin key is
\* back at its own starting slot.
C13_GenuineCycle == CycleRuleA => cur_table_no = frame.orig_table

\* ---- C14 ----
\* the step has split the bucket that slot cur_address of the active table
\* referenced, and has left the other table alone
SplitAtAddress ==
  \E t \in TableNos :
     /\ t = cur_table_no
     /\ \E b \in 1..Len(heap[t]) :
          /\ b = tab[t].buckets[cur_address + 1]
          /\ Len(heap'[t]) = Len(heap[t]) + 1
          /\ heap'[t][b].depth = heap[t][b].depth + 1
          /\ heap'[t][Len(heap[t]) + 1].depth = heap[t][b].depth + 1
     /\ tab'[3 - t] = tab[3 - t]
     /\ heap'[3 - t] = heap[3 - t]

\* the step has ended with the call xuckoo_hash_table_insert(table, k): the
\* call has returned at once if lookup finds k, and otherwise a new chain
\* has started with k as its key and origin key
RestartedWith(k) ==
  IF xuckoo_hash_table_lookup(tab', heap', k)
  THEN pc' = "idle"
  ELSE pc' = "try" /\ frame' = first_frame(tab', k)

\* C14 as stated: whenever the cycle/overflow check fires, the bucket at
\* the computed address of the active table is split and the insert is
\* restarted with the origin key of the chain.
C14_RestartOriginKey ==
  [][SplitStep => (SplitAtAddress /\ RestartedWith(frame.orig_key))]_vars

\* C14 as amended: whenever the cycle/overflow check fires and the split
\* does not fail on the ceiling, the bucket at the computed address of the
\* active table is split and the insert is restarted with the key in hand
\* (the current key of the step), whether or not it is the origin key.
C14_RestartKeyInHand ==
  [][SplitStep => (SplitAtAddress /\ RestartedWith(frame.key))]_vars

\* a chain is running that was started by a restart with a key other than
\* the one passed to the public insert call
C14_Witness ==
  /\ pc = "try"
  /\ frame.key = frame.orig_key
  /\ frame.orig_key # arg
  /\ stats.nbuckets >= 1

\* ---- C15 ----
\* the table that stores fewer keys, table 1 when both store equally many
StoresFewer ==
  IF Cardinality(Occupied(1)) <= Cardinality(Occupied(2)) THEN 1 ELSE 2

\* the step starts a chain: a public insert call of a key not present, or
\* the insert call that follows a split
ChainStarts == pc' = "try" /\ (pc = "idle" \/ SplitStep)

\* C15: the first step of a chain works on the table that stores fewer
\* keys at that moment, on table 1 when both store equally many; and each
\* later step of the chain works on the other table than the step before.
C15_StartingTable ==
  [][/\ ChainStarts => cur_table_no' = StoresFewer'
     /\ (pc = "try" /\ pc' = "try" /\ ~SplitStep)
          => cur_table_no' # cur_table_no]_vars

\* ---- C16 ----
\* C16: between public calls, nkeys of each inner table is the number of
\* distinct occupied buckets its slots reference, and stats.nkeys is the
\* sum of the two.
C16_KeyCounts ==
  Idle => /\ \A t \in TableNos : tab[t].nkeys = Cardinality(Occupied(t))
          /\ stats.nkeys = tab[1].nkeys + tab[2].nkeys

\* ---- C17 ----
\* C17: in every state, the id of each bucket is the smallest slot index of
\* its table that references it, and no two buckets of one table have the
\* same id.
C17_BucketId ==
  \A t \in TableNos : \A b \in 1..Len(heap[t]) :
     /\ heap[t][b].id \in SlotsOf(t, b)
     /\ \A i \in SlotsOf(t, b) : heap[t][b].id <= i
     /\ \A c \in 1..Len(heap[t]) : c # b => heap[t][c].id # heap[t][b].id

\* a table has grown and split so that a bucket created by a split, with a
\* non-zero id, is referenced by several slots
C17_Witness ==
  \E t \in TableNos : \E b \in 2..Len(heap[t]) :
     /\ heap[t][b].id > 0
     /\ Cardinality(SlotsOf(t, b)) >= 2
     /\ Len(heap[t]) >= 4

\* ---- C18 ----
\* what double_table does to table t in the current state
GrowPreserves(t) ==
  LET T == tab[t]
      G == double_table(T)
      TT == [tab EXCEPT ![t] = G]
  IN  /\ G.depth = T.depth + 1
      /\ G.size = 2 * T.size
      /\ G.size = 2 ^ G.depth
      /\ Len(G.buckets) = G.size
      /\ G.nkeys = T.nkeys
      /\ \A i \in 0..(T.size - 1) :
            /\ G.buckets[i + 1] = T.buckets[i + 1]
            /\ G.buckets[i + T.size + 1] = T.buckets[i + 1]
      /\ \A k \in Keys :
            xuckoo_hash_table_lookup(tab, heap, k)
              => xuckoo_hash_table_lookup(TT, heap, k)

\* C18: in every state the size of each table is 2^depth, and double_table
\* applied to a table below the ceiling adds 1 to its depth, doubles its
\* size, makes slot i + old size reference the bucket of slot i, leaves
\* the old slots and every bucket as they were and references no new
\* bucket, so that every key lookup finds before the grow it finds after.
C18_GrowPreservesAddressing ==
  \A t \in TableNos :
     /\ tab[t].size = 2 ^ tab[t].depth
     /\ Len(tab[t].buckets) = tab[t].size
     /\ double_table_ok(tab[t]) => GrowPreserves(t)

\* a table that has grown twice holds a key in a bucket that two slots, i
\* and i + half the size, reference, and can grow again
C18_Witness ==
  \E t \in TableNos : \E i \in 0..MAX_TABLE_SIZE :
     /\ tab[t].depth >= 2
     /\ double_table_ok(tab[t])
     /\ 2 * i < tab[t].size
     /\ tab[t].buckets[i + 1] = tab[t].buckets[i + (tab[t].size \div 2) + 1]
     /\ heap[t][tab[t].buckets[i + 1]].full

\* ---- C19 ----
\* C19: between public calls, every occupied bucket of table t is the
\* bucket that the slot at the address of its key (the low-order depth
\* bits of h_t(key)) references: a stored key sits where lookup looks.
C19_KeyAddress ==
  Idle => \A t \in TableNos : \A b \in Occupied(t) :
            tab[t].buckets[rightmostnbits(tab[t].depth,
                                          hash(t, heap[t][b].key)) + 1] = b

\* a key sits in a bucket that a split created, in a table of depth 2 or
\* more that stores another key as well
C19_Witness ==
  /\ Idle
  /\ \E t \in TableNos : \E b \in Occupied(t) :
        /\ tab[t].depth >= 2
        /\ b >= 2
        /\ heap[t][b].id >= 2
        /\ Cardinality(Occupied(t)) >= 2

====
